---- MODULE Spec2Model ----
(***************************************************************************)
(* Stockade-hook: the action patching and the wrapped-action pipeline of   *)
(* SailsHookStockade (permission gate, parameter validation gate, original *)
(* action), as a state machine over the Sails action registry, the two     *)
(* controller configuration sources and the requests in flight.            *)
(*                                                                         *)
(* JavaScript strings are sequences of one-character strings, so that      *)
(* startsWith / substr / trim / split / join are computed as the code      *)
(* computes them.  JavaScript values are records tagged by their type `t`. *)
(***************************************************************************)
EXTENDS Integers, Sequences, FiniteSets, TLC

\* ------------------------------------------------------------------ bounds
\* Number of requests dispatched in one behaviour.
MaxReq == 1
\* Number of 'router:route' events delivered in one behaviour.
MaxRoute == 2
\* Longest list of attribute references in an {or: [...]} or {and: [...]} rule.
MaxRefs == 2
\* Largest number of errors in an error group raised by a model's validator.
MaxGroup == 2
\* Largest number of failed validations handed to _collectFails.
MaxFails == 2
\* Number of calls of tryGetErrorService in one behaviour.
MaxCalls == 3

\* ----------------------------------------------------------- string helpers
Min(a, b) == IF a < b THEN a ELSE b

\* String.prototype.startsWith
StartsWith(s, p) == Len(s) >= Len(p) /\ SubSeq(s, 1, Len(p)) = p

\* String.prototype.substr(start) and substr(start, length)
SubstrFrom(s, start) == SubSeq(s, start + 1, Len(s))
Substr(s, start, len) == SubSeq(s, start + 1, Min(Len(s), start + len))

\* String.prototype.trim
RECURSIVE TrimLeft(_)
TrimLeft(s) == IF s # <<>> /\ Head(s) = " " THEN TrimLeft(Tail(s)) ELSE s
RECURSIVE TrimRight(_)
TrimRight(s) ==
  IF s # <<>> /\ s[Len(s)] = " " THEN TrimRight(SubSeq(s, 1, Len(s) - 1)) ELSE s
Trim(s) == TrimRight(TrimLeft(s))

\* String.prototype.split('/'): the components between the separators
RECURSIVE SplitAcc(_, _, _)
SplitAcc(s, sep, cur) ==
  IF s = <<>> THEN <<cur>>
  ELSE IF Head(s) = sep THEN <<cur>> \o SplitAcc(Tail(s), sep, <<>>)
  ELSE SplitAcc(Tail(s), sep, Append(cur, Head(s)))
Split(s, sep) == SplitAcc(s, sep, <<>>)

\* Array.prototype.join('/')
RECURSIVE Join(_, _)
Join(parts, sep) ==
  IF parts = <<>> THEN <<>>
  ELSE IF Len(parts) = 1 THEN parts[1]
  ELSE parts[1] \o <<sep>> \o Join(Tail(parts), sep)

\* ------------------------------------------------------------ string values
ACTION_PREFIX == <<"A", "C", "T", "I", "O", "N", ":">>
PATCH_SUFFIX == <<"_", "p", "a", "t", "c", "h">>
S_user == <<"u", "s", "e", "r">>
S_find == <<"f", "i", "n", "d">>
S_getInfo == <<"g", "e", "t", "I", "n", "f", "o">>
S_getinfo == <<"g", "e", "t", "i", "n", "f", "o">>
S_toString == <<"t", "o", "S", "t", "r", "i", "n", "g">>
S_tostring == <<"t", "o", "s", "t", "r", "i", "n", "g">>
S_constructor == <<"c", "o", "n", "s", "t", "r", "u", "c", "t", "o", "r">>
S_valueOf == <<"v", "a", "l", "u", "e", "O", "f">>
S_policy == <<"P", "O", "L", "I", "C", "Y", ":", " ", "x">>

\* ------------------------------------------------------- JavaScript values
Undefined == [t |-> "undefined"]
\* a truthy value that is not an object (a string such as 'yes')
BadString == [t |-> "string"]
\* a plain object with the given own properties
Obj(own) == [t |-> "object", own |-> own]
\* a permission matcher built by Permissions.for(...)
Matcher(id) == [t |-> "matcher", id |-> id]
\* a function inherited from Object.prototype
Inherited(k) == [t |-> "function", id |-> k]
EmptyOwn == [k \in {} |-> Undefined]

Truthy(v) == v.t \notin {"undefined", "null", "false"}
TypeofObject(v) == v.t \in {"object", "matcher", "null"}

\* Names every plain object inherits from Object.prototype.
ObjectPrototypeKeys == {S_constructor, S_toString, S_valueOf}

\* obj[key] on a plain object: own properties first, then Object.prototype.
Get(obj, key) ==
  IF obj.t # "object" THEN Undefined
  ELSE IF key \in DOMAIN obj.own THEN obj.own[key]
  ELSE IF key \in ObjectPrototypeKeys THEN Inherited(key)
  ELSE Undefined

\* variant: the properties of the target win over the source's
AssignTargetWins(target, source) ==
  [k \in (DOMAIN target) \cup (DOMAIN source) |->
     IF k \in DOMAIN target THEN target[k] ELSE source[k]]

\* Object.assign(target, source) on the own properties.
Assign(target, source) ==
  [k \in (DOMAIN target) \cup (DOMAIN source) |->
     IF k \in DOMAIN source THEN source[k] ELSE target[k]]

\* ------------------------------------------------------------ host actions
\* An action of the host: the controller's export key, and the tag Sails sets
\* on it ('ACTION: ' + lower-cased identity).
WellFormedTag(lowerKey) ==
  [t |-> "string", s |-> ACTION_PREFIX \o <<" ">> \o S_user \o <<"/">> \o lowerKey]

ActionDefs ==
  { [key |-> S_getInfo, lower |-> S_getinfo],
    [key |-> S_toString, lower |-> S_tostring] }

\* The tags a host action may carry: well formed, missing, or another kind.
TagsOf(d) ==
  { WellFormedTag(d.lower), Undefined, [t |-> "string", s |-> S_policy] }

\* The function names an action may carry: the export key (a method or an
\* inferred name), or the name of a function shared between export keys.
NamesOf(d) == { d.key, S_find }

\* A host action: a function with its own name, its enumerable properties
\* (Sails' `_middlewareType`), and whether it is an AsyncFunction.
\* `marker` is the non-enumerable `_aclHookPatch` property, `target` the action
\* a wrapper closes over (undefined for a host action).
HostActionsOf(d) ==
  { [t |-> "function", kind |-> "host", key |-> d.key, name |-> n, isAsync |-> a,
     props |-> [p \in {"_middlewareType"} |-> tg],
     marker |-> FALSE, target |-> Undefined] :
       n \in NamesOf(d), a \in BOOLEAN, tg \in TagsOf(d) }
HostActions == UNION { HostActionsOf(d) : d \in ActionDefs }

\* registry keys: the identity of the action, and an identity with no action
ActionId == "user/action"
UnknownId == "user/unknown"
ActionIds == {ActionId, UnknownId}

IsFunction(a) == a.t = "function"

\* ------------------------------------------------------- configuration
Null == [t |-> "null"]
\* the boolean false: a value that is set, falsy, and not an object
False == [t |-> "false"]
\* sails.config.blueprints._controllers is missing altogether
NoControllers == [t |-> "nocontrollers"]
\* a controller entry of the blueprints config, with its `permissions` field
Ctl(perms) == [t |-> "object", permissions |-> perms]
\* a loaded controller with its `_config` field
MCtl(cfg) == [t |-> "object", config |-> cfg]

NaturalTables ==
  { EmptyOwn, (S_getInfo :> Matcher("m1")), (S_find :> Matcher("m1")) }
MarlinTables == { EmptyOwn, (S_getInfo :> Matcher("m2")) }

NaturalValues ==
  { Undefined, NoControllers, Ctl(Undefined), Ctl(BadString), Ctl(False) }
    \cup { Ctl(Obj(T)) : T \in NaturalTables }
MarlinValues ==
  { Undefined, MCtl(Undefined), MCtl(Ctl(BadString)) }
    \cup { MCtl(Ctl(Obj(T))) : T \in MarlinTables }

\* validation specs: none, a simple one, and advanced ones
PlainObject == [t |-> "object"]
VSpec(joi, waterline) == [t |-> "object", joi |-> joi, waterline |-> waterline]
ValidationSpecs ==
  { Undefined, VSpec(Undefined, Undefined), VSpec(PlainObject, PlainObject),
    VSpec(Undefined, PlainObject) }

\* ------------------------------------------------------------------- state
VARIABLES
  actions,       \* sails._actions: identity -> function or undefined
  hostAction,    \* the action the host registered (never changes)
  natural,       \* sails.config.blueprints._controllers[controllerIdent]
  marlin,        \* sails.controllers[controllerIdent]
  errorService,  \* whether global.ErrorService is installed
  validations,   \* the validation spec configured for the action
  routeCount,    \* 'router:route' events delivered, per identity
  req,           \* the requests: request id -> request record
  input,         \* a call of validateParams: the request's parameters, what
                 \* Joi and the models' validators find for them
  run,           \* a call of validateParams: its position and its effects
  collect,       \* a call of _collectFails: its inputs, position and result
  errorsHelper   \* errors.js: global.ErrorService, cacheErrorService, and
                 \* what the calls of tryGetErrorService returned

paramVars == <<input, run>>
vars == <<actions, hostAction, natural, marlin, errorService, validations,
          routeCount, req, input, run, collect, errorsHelper>>

Requests == 1..MaxReq

\* ------------------------------------------------------------ _patchAction
\* variant: the marker is never looked at, every route event wraps again
HasPatchMarkerUnchecked(action) == FALSE

\* `action._aclHookPatch`: whether the action carries the patched marker
HasPatchMarker(action) == action.marker

\* variant: the wrapper is put in the registry without its marker
WrappedActionUnmarked(action) ==
  [t |-> "function", kind |-> "wrapper", key |-> action.key,
   name |-> action.name \o PATCH_SUFFIX, isAsync |-> action.isAsync,
   props |-> [k \in DOMAIN action.props |-> action.props[k]],
   marker |-> FALSE, target |-> action]

\* The wrapper _patchAction builds: every enumerable property copied, the
\* name suffixed, the marker defined, the original kept in the closure.
WrappedAction(action) ==
  [t |-> "function", kind |-> "wrapper", key |-> action.key,
   name |-> action.name \o PATCH_SUFFIX, isAsync |-> action.isAsync,
   props |-> [k \in DOMAIN action.props |-> action.props[k]],
   marker |-> TRUE, target |-> action]

\* _patchAction(actionName) on the registry `acts`
PatchAction(acts, actionName) ==
  LET action == acts[actionName] IN
  IF ~IsFunction(action) THEN acts
  ELSE IF HasPatchMarker(action) THEN acts
  ELSE [acts EXCEPT ![actionName] = WrappedAction(action)]

\* variant: the marker is defined as an ordinary, writable property
MarkerWritableYes(action) == TRUE

\* `Object.defineProperty(wrappedAction, '_aclHookPatch', { value: true,
\* writable: false })`: whether an assignment to the marker of a wrapper
\* takes effect
MarkerWritable(action) == FALSE

\* number of wrappers around the host action in a registry entry
RECURSIVE WrapDepth(_)
WrapDepth(a) ==
  IF a.t # "function" \/ a.kind = "host" THEN 0 ELSE 1 + WrapDepth(a.target)

\* ---------------------------------------------------------------- requests
NewRequest ==
  [phase |-> "new", entry |-> Undefined, responses |-> <<>>,
   engineCalls |-> 0, handlerCalls |-> 0, auth |-> "none",
   matcher |-> Undefined, validation |-> "none", validatedParams |-> "unset",
   handler |-> "none", returned |-> FALSE, logs |-> {}]

HeadersSent(rq) == Len(rq.responses) > 0
Respond(rq, by, kind) ==
  [rq EXCEPT !.responses = Append(@, [by |-> by, kind |-> kind])]
Log(rq, entry) == [rq EXCEPT !.logs = @ \cup {entry}]
Finish(rq) == [rq EXCEPT !.phase = "done"]

\* --------------------------------------- _executeActionWrapped, synchronous
\* variant: only the type of the tag is checked, not its prefix
MalformedActionTypeOnly(action) ==
  action.props["_middlewareType"].t # "string"

\* the tag check of the action
MalformedAction(action) ==
  LET mt == action.props["_middlewareType"] IN
  mt.t # "string" \/ ~StartsWith(mt.s, ACTION_PREFIX)

FullActionPath(action) ==
  Trim(SubstrFrom(action.props["_middlewareType"].s, Len(ACTION_PREFIX)))
Components(action) == Split(FullActionPath(action), "/")
ControllerIdent(action) ==
  LET c == Components(action) IN Join(SubSeq(c, 1, Len(c) - 1), "/")
ActionName(action) == LET c == Components(action) IN c[Len(c)]
ActionCaseName(action) == Substr(action.name, 0, Len(ActionName(action)))

\* the two configuration sources' entries for a controller identity
Controller(ident) ==
  IF ident = S_user /\ natural.t # "nocontrollers" THEN natural ELSE Undefined
MarlinController(ident) == IF ident = S_user THEN marlin ELSE Undefined

MarlinPerms(mc) ==
  LET marlinConfig == IF Truthy(mc) /\ TypeofObject(mc) THEN mc.config
                      ELSE PlainObject IN
  IF Truthy(marlinConfig) /\ TypeofObject(marlinConfig)
       /\ "permissions" \in DOMAIN marlinConfig
    THEN marlinConfig.permissions ELSE Undefined
NaturalPerms(c) ==
  IF Truthy(c) /\ TypeofObject(c) THEN c.permissions ELSE Undefined

\* variant: a `permissions` value of any type is let through
InvalidPermsNever(perms) == FALSE

\* `perms && (typeof perms !== 'object')`: a `permissions` value that is
\* truthy and not an object
InvalidPerms(perms) == Truthy(perms) /\ ~TypeofObject(perms)

\* the own properties Object.assign reads or writes: none for `{}` and for a
\* value that is not an object
OwnOrEmpty(perms) ==
  IF Truthy(perms) /\ perms.t = "object" THEN perms.own ELSE EmptyOwn

\* Object.assign(naturalPerms || {}, marlinPerms || {})
AllPerms(naturalPerms, marlinPerms) ==
  Obj(Assign(OwnOrEmpty(naturalPerms), OwnOrEmpty(marlinPerms)))

\* the blueprints entry after the merge: a `permissions` object of the
\* blueprints config is the target of Object.assign
NaturalAfterMerge(naturalPerms, marlinPerms) ==
  IF Truthy(naturalPerms)
    THEN [natural EXCEPT !.permissions = AllPerms(naturalPerms, marlinPerms)]
    ELSE natural

\* variant: the evaluation is started whatever the lookup found
NoMatcherNever(matcher) == FALSE

\* `if (!matcher)`: whether the request is forbidden by default
NoMatcher(matcher) == ~Truthy(matcher)

\* variant: the throw of Permissions.validate escapes the wrapped action
CatchEngineThrowNot(rq) == [rq EXCEPT !.phase = "leaked"]

\* the outer catch: a throw of the call of Permissions.validate is logged
\* and answered with a server error
CatchEngineThrow(rq) ==
  Finish(Respond(Log(rq, "error:validation"), "pipeline", "serverError:thrown"))

\* The synchronous part of _executeActionWrapped, up to the call of
\* Permissions.validate, which either throws (`engine` = "throws") or returns
\* a promise.  The result is the request record and the blueprints entry.
ExecuteActionWrapped(rq0, action, engine) ==
  LET rq == [rq0 EXCEPT !.returned = TRUE] IN
  IF MalformedAction(action)
    THEN [rq |-> Finish(Respond(Log(rq, "warn:malformedAction"),
                                "pipeline", "serverError:malformedAction")),
          natural |-> natural]
  ELSE IF natural.t = "nocontrollers"
    THEN [rq |-> Finish(Respond(Log(rq, "error:noControllers"),
                                "pipeline", "serverError:badConfig")),
          natural |-> natural]
  ELSE
  LET ident == ControllerIdent(action)
      controller == Controller(ident)
      marlinController == MarlinController(ident)
      marlinPerms == MarlinPerms(marlinController)
      naturalPerms == NaturalPerms(controller)
  IN
  IF (~Truthy(controller) /\ ~Truthy(marlinController))
       \/ (~TypeofObject(controller) /\ ~TypeofObject(marlinController))
    THEN [rq |-> Finish(Respond(Log(rq, "error:noController"),
                                "pipeline", "serverError:badConfig")),
          natural |-> natural]
  ELSE IF InvalidPerms(marlinPerms)
    THEN [rq |-> Finish(Respond(Log(rq, "error:marlinPerms"),
                                "pipeline", "serverError:badConfig")),
          natural |-> natural]
  ELSE IF InvalidPerms(naturalPerms)
    THEN [rq |-> Finish(Respond(Log(rq, "error:naturalPerms"),
                                "pipeline", "serverError:badConfig")),
          natural |-> natural]
  ELSE
  LET allPerms == AllPerms(naturalPerms, marlinPerms)
      matcher == Get(allPerms, ActionCaseName(action))
      merged == NaturalAfterMerge(naturalPerms, marlinPerms)
  IN
  IF NoMatcher(matcher)
    THEN [rq |-> Finish(Respond(Log(rq, "warn:noMatcher"),
                                "pipeline", "forbidden")),
          natural |-> merged]
  ELSE IF engine = "throws"
    THEN [rq |-> CatchEngineThrow([rq EXCEPT !.engineCalls = @ + 1,
                                             !.matcher = matcher,
                                             !.auth = "threw"]),
          natural |-> merged]
  ELSE [rq |-> [rq EXCEPT !.engineCalls = @ + 1, !.matcher = matcher,
                          !.auth = "pending", !.phase = "authorizing"],
        natural |-> merged]

\* ------------------------------------------------------- validateParams
IsObject(v) == v.t = "object"

\* `v instanceof Object`: objects, arrays and constructed Joi schemas
InstanceofObject(v) == v.t \in {"object", "array", "joi"}

\* Joi.object().keys(o): the Joi schema built from a plain object
JoiObjectKeys(o) == [t |-> "joi", keys |-> o]

\* extractJoi: the Joi schema and its options from a plain object, a tuple
\* `[schema, opts]` or a constructed schema (`isJoi === true`)
ExtractJoi(joiSchemaObject) ==
  LET isTuple == joiSchemaObject.t = "array"
      items == IF isTuple THEN joiSchemaObject.items ELSE <<>>
      opts == IF ~isTuple THEN Null
              ELSE IF Len(items) >= 2 THEN items[2] ELSE Undefined
      o == IF ~isTuple THEN joiSchemaObject
           ELSE IF Len(items) >= 1 /\ InstanceofObject(items[1]) THEN items[1]
           ELSE PlainObject
  IN [joiSchema |-> IF o.t = "joi" THEN o ELSE JoiObjectKeys(o),
      joiSchemaOpts |-> opts]

\* variant: a spec that is no object is taken as a simple spec too
ExtractSubschemaAsSimple(schema) ==
  [joiSchema |-> JoiObjectKeys(schema), joiSchemaOpts |-> Null,
   waterlineSchema |-> Null]

\* extractSubschema: the Joi schema (with its options) and the Waterline
\* schema of a validation spec, null where there is none
ExtractSubschema(schema) ==
  IF ~InstanceofObject(schema)
    THEN [joiSchema |-> Null, joiSchemaOpts |-> Null, waterlineSchema |-> Null]
  ELSE
  LET joi == IF schema.t = "object" THEN schema.joi ELSE Undefined
      waterline == IF schema.t = "object" THEN schema.waterline ELSE Undefined
      isAdvancedValidator == InstanceofObject(joi) \/ InstanceofObject(waterline)
  IN
  IF isAdvancedValidator
    THEN [joiSchema |-> IF InstanceofObject(joi) THEN ExtractJoi(joi).joiSchema
                        ELSE Null,
          joiSchemaOpts |-> IF InstanceofObject(joi)
                              THEN ExtractJoi(joi).joiSchemaOpts ELSE Null,
          waterlineSchema |-> IF InstanceofObject(waterline) THEN waterline
                              ELSE Null]
    ELSE [joiSchema |-> ExtractJoi(schema).joiSchema,
          joiSchemaOpts |-> ExtractJoi(schema).joiSchemaOpts,
          waterlineSchema |-> Null]

\* validateParams(req, actionInfo, schema): Joi first, then Waterline.
\* `joiOut` is what Joi finds for the request ("ok", "fail"), `wlOut` what
\* the models' validators find ("ok", "fail", or "fatal" for a configuration
\* error).  The result tells what was thrown, the request's validatedParams
\* afterwards, and which validators ran.
ValidateParams(rq, schema, joiOut, wlOut) ==
  LET sub == ExtractSubschema(schema)
      hasJoi == sub.joiSchema # Null
      hasWl == sub.waterlineSchema # Null
  IN
  IF hasJoi /\ joiOut = "fail"
    THEN [threw |-> "joi", validatedParams |-> rq.validatedParams,
          joiRan |-> TRUE, waterlineRan |-> FALSE]
  ELSE
  LET vp == IF hasJoi THEN "sanitised" ELSE rq.validatedParams IN
  IF hasWl /\ wlOut # "ok"
    THEN [threw |-> IF wlOut = "fatal" THEN "fatal" ELSE "waterline",
          validatedParams |-> vp, joiRan |-> hasJoi, waterlineRan |-> TRUE]
    ELSE [threw |-> "none", validatedParams |-> vp,
          joiRan |-> hasJoi, waterlineRan |-> hasWl]

\* variant: the action runs whatever validateParams threw
ValidationPassesAlways(threw) == TRUE

\* The parameter validation gate of the wrapped action: whether the original
\* action may run after validateParams ended with `threw`.
ValidationPasses(threw) == threw = "none"

\* ------------------------------------------------ testWaterlineValidations
\* attribute references: 'U.n' and 'U.e' name attributes of the model U;
\* 'Un' has one fragment, 'X.n' names no model, 'B.n' names a model without
\* a `validate` function
S_Un == <<"U", ".", "n">>
S_Ue == <<"U", ".", "e">>
S_OneFragment == <<"U", "n">>
S_Xn == <<"X", ".", "n">>
S_Bn == <<"B", ".", "n">>
ValidRefs == {S_Un, S_Ue}

\* String.prototype.toLowerCase on the letters the references use
LowerCase == ("U" :> "u") @@ ("X" :> "x") @@ ("B" :> "b")
ToLowerCase(s) ==
  [i \in 1..Len(s) |-> IF s[i] \in DOMAIN LowerCase THEN LowerCase[s[i]] ELSE s[i]]

\* req._sails.models, by lower-cased identity
Models ==
  (<<"u">> :> [t |-> "object", validate |-> TRUE])
    @@ (<<"b">> :> [t |-> "object", validate |-> FALSE])
\* variant: every identity names a model that can validate
ModelOfAny(identity) == [t |-> "object", validate |-> TRUE]

ModelOf(identity) ==
  IF identity \in DOMAIN Models THEN Models[identity] ELSE Undefined

\* values a validation raises: an error and an error group of the error
\* hook, any other value, and the Errors validateParams itself builds
NoThrow == [t |-> "nothrow"]
E(attr, i) == [t |-> "error", attr |-> attr, i |-> i]
Group(errors) == [t |-> "group", errors |-> errors]
Other(attr) == [t |-> "other", attr |-> attr]
ConfigError(why) == [t |-> "Error", why |-> why]
MultiError(errors) == [t |-> "Error", why |-> "multiple", errors |-> errors]
JoiError == [t |-> "joiError"]

\* variant: every raised value is taken for an error of the error hook
IsErrorAny(e) == TRUE

\* ErrorService.isError / isErrorGroup / groupErrors
IsError(e) == e.t = "error"
IsErrorGroup(e) == e.t = "group"
GroupErrors(errors) == Group(errors)

\* what a model's validator finds for an attribute: nothing ("ok"), an
\* error, a group of n errors, or a value the error hook does not know
Outcome(kind, n) == [kind |-> kind, n |-> n]
ValidatorOutcomes ==
  { Outcome("ok", 0), Outcome("error", 1), Outcome("other", 0) }
    \cup { Outcome("group", n) : n \in 0..MaxGroup }

\* model.validate(attr, value): the value it throws, NoThrow if none
ModelValidate(attr) ==
  LET o == input.validators[attr] IN
  IF o.kind = "ok" THEN NoThrow
  ELSE IF o.kind = "error" THEN E(attr, 0)
  ELSE IF o.kind = "group" THEN Group([i \in 1..o.n |-> E(attr, i)])
  ELSE Other(attr)

\* attribute rules of a Waterline schema
Array(items) == [t |-> "array", items |-> items]
IsArray(v) == v.t = "array"
StrRule(s) == [t |-> "string", s |-> s]
OrRule(list) == [t |-> "object", or |-> Array(list), and |-> Undefined]
AndRule(list) == [t |-> "object", or |-> Undefined, and |-> Array(list)]
BadObjectRule == [t |-> "object", or |-> Undefined, and |-> Undefined]
NumberRule == [t |-> "number"]

\* the events of a call: Joi's validate, and each call of a model's validate
JoiCall == [kind |-> "joi", model |-> <<>>, attr |-> <<>>, param |-> ""]
ValidateCall(model, attr, paramName) ==
  [kind |-> "validate", model |-> model, attr |-> attr, param |-> paramName]

\* Array.prototype.slice(0, n)
Slice(s, n) == SubSeq(s, 1, Min(n, Len(s)))

\* the validation definition of a parameter: its references and matchAll, or
\* the Error thrown for a definition that is neither
ParamValidations(paramValidation) ==
  IF IsObject(paramValidation)
    THEN IF IsArray(paramValidation.or)
           THEN [threw |-> NoThrow, validations |-> paramValidation.or.items,
                 matchAll |-> FALSE]
         ELSE IF IsArray(paramValidation.and)
           THEN [threw |-> NoThrow, validations |-> paramValidation.and.items,
                 matchAll |-> TRUE]
         ELSE [threw |-> ConfigError("rule"), validations |-> <<>>,
               matchAll |-> FALSE]
  ELSE IF paramValidation.t = "string"
    THEN [threw |-> NoThrow, validations |-> <<paramValidation.s>>,
          matchAll |-> FALSE]
  ELSE [threw |-> ConfigError("rule"), validations |-> <<>>, matchAll |-> FALSE]

\* validations.forEach(ident => ...) over the references `idents`, from the
\* i-th on.  `st` holds
\* paramErrors, failCount, the calls made, and what was thrown.
RECURSIVE ForEachIdent(_, _, _, _)
ForEachIdent(idents, i, paramName, st) ==
  IF i > Len(idents) THEN st
  ELSE
  LET fragments == Split(idents[i], ".") IN
  IF Len(fragments) # 2 THEN [st EXCEPT !.threw = ConfigError("fragments")]
  ELSE
  LET identity == ToLowerCase(fragments[1])
      model == ModelOf(identity)
  IN
  IF ~IsObject(model) \/ ~model.validate
    THEN [st EXCEPT !.threw = ConfigError("model")]
  ELSE
  LET called == [st EXCEPT !.calls =
                   Append(@, ValidateCall(identity, fragments[2], paramName))]
      e == ModelValidate(fragments[2])
  IN
  IF e = NoThrow THEN ForEachIdent(idents, i + 1, paramName, called)
  ELSE IF ~errorService THEN [called EXCEPT !.threw = e]
  ELSE IF IsError(e)
    THEN ForEachIdent(idents, i + 1, paramName,
                      [called EXCEPT !.paramErrors = Append(@, e),
                                     !.failCount = @ + 1])
  ELSE IF IsErrorGroup(e)
    THEN ForEachIdent(idents, i + 1, paramName,
                      [called EXCEPT !.paramErrors = @ \o e.errors,
                                     !.failCount = @ + 1])
  ELSE [called EXCEPT !.threw = e]

\* variant: a parameter is validated whether or not the request supplies it
IsSuppliedAlways(paramName) == TRUE

\* `typeof req.param(paramName) !== 'undefined'`
IsSupplied(paramName) == paramName \in input.params

\* variant: one success is enough, also for an {and: [...]} rule
MinimumSuccessCountOne(matchAll, n) == 1

\* `(matchAll) ? validations.length : 1`
MinimumSuccessCount(matchAll, n) == IF matchAll THEN n ELSE 1

\* `for (const paramName in wlSchema)`, from the i-th entry on.  `st` holds
\* the errors collected, the calls made, and what was thrown.
RECURSIVE ForInSchema(_, _, _)
ForInSchema(entries, i, st) ==
  IF i > Len(entries) THEN st
  ELSE
  LET paramName == entries[i].name IN
  IF ~IsSupplied(paramName) THEN ForInSchema(entries, i + 1, st)
  ELSE
  LET pv == ParamValidations(entries[i].rule) IN
  IF pv.threw # NoThrow THEN [st EXCEPT !.threw = pv.threw]
  ELSE
  LET res == ForEachIdent(pv.validations, 1, paramName,
                          [threw |-> NoThrow, paramErrors |-> <<>>,
                           failCount |-> 0, calls |-> st.calls])
  IN
  IF res.threw # NoThrow
    THEN [st EXCEPT !.threw = res.threw, !.calls = res.calls]
  ELSE
  LET minimumSuccessCount ==
        MinimumSuccessCount(pv.matchAll, Len(pv.validations))
      successCount == Len(pv.validations) - res.failCount
  IN
  IF successCount >= minimumSuccessCount
    THEN ForInSchema(entries, i + 1, [st EXCEPT !.calls = res.calls])
    ELSE ForInSchema(entries, i + 1,
                     [st EXCEPT !.calls = res.calls,
                                !.errors = @ \o Slice(res.paramErrors,
                                                      minimumSuccessCount)])

\* testWaterlineValidations(req, actionInfo, wlSchema): what it throws
\* (NoThrow when it returns null) and the calls made, after `calls`
TestWaterlineValidations(wlSchema, calls) ==
  IF ~IsObject(wlSchema) THEN [threw |-> NoThrow, calls |-> calls]
  ELSE
  LET st == ForInSchema(wlSchema.rules, 1,
                        [threw |-> NoThrow, errors |-> <<>>, calls |-> calls])
      errors == st.errors
  IN
  IF st.threw # NoThrow THEN [threw |-> st.threw, calls |-> st.calls]
  ELSE IF Len(errors) = 0 THEN [threw |-> NoThrow, calls |-> st.calls]
  ELSE IF ~errorService
    THEN [threw |-> IF Len(errors) = 1 THEN errors[1] ELSE MultiError(errors),
          calls |-> st.calls]
  ELSE [threw |-> IF Len(errors) = 1 THEN errors[1] ELSE GroupErrors(errors),
        calls |-> st.calls]

\* variant: a Joi error is not thrown
JoiFailsNever(joiOut) == FALSE

\* `if (joiResult.error)`: whether testJoiValidations throws
JoiFails(joiOut) == joiOut = "fail"

\* variant: the sanitised parameters are not put on the request
SetValidatedParamsDropped(r, value) == r

\* `req.validatedParams = validatedParams`
SetValidatedParams(r, value) == [r EXCEPT !.validatedParams = value]

\* ----------------------------------------------- the original action's run
\* variant: the pipeline answers a failed action without looking at headersSent
MaySendServerErrorUnguarded(rq) == TRUE

\* `if (!res.headersSent)`: the pipeline answers a failed action only when no
\* response has been sent
MaySendServerError(rq) == ~HeadersSent(rq)

\* the catch of a synchronous throw of the action
CatchSyncThrow(rq) ==
  Finish(Log(IF MaySendServerError(rq)
               THEN Respond(rq, "pipeline", "serverError:action") ELSE rq,
             "error:action"))

\* the .catch of the promise an AsyncFunction action returned
CatchAsyncRejection(rq) ==
  LET answered == IF MaySendServerError(rq)
                    THEN Respond(rq, "pipeline", "serverError:action") ELSE rq
  IN Finish(IF errorService THEN answered ELSE Log(answered, "error:action"))

\* Whether a rejection of the promise returned by the action is caught:
\* only an AsyncFunction's promise gets a .catch
CatchesRejection(action) == action.isAsync

\* action(req, res) inside the then-callback.  A synchronous action returns
\* after responding ("return"), throws before or after responding, or returns
\* a promise ("promise"); an AsyncFunction always returns a promise.
InvokeAction(rq0, action, hOut) ==
  LET rq == [rq0 EXCEPT !.handlerCalls = @ + 1] IN
  IF action.isAsync \/ hOut = "promise"
    THEN [rq EXCEPT !.phase = "executing", !.handler = "pending"]
  ELSE IF hOut = "return"
    THEN Finish([Respond(rq, "action", "ok") EXCEPT !.handler = "returned"])
  ELSE IF hOut = "throwBefore"
    THEN CatchSyncThrow([rq EXCEPT !.handler = "threw"])
  ELSE CatchSyncThrow([Respond(rq, "action", "ok") EXCEPT !.handler = "threw"])

\* the promise returned by the action settles: "resolve" (after responding),
\* "rejectBefore" or "rejectAfter" (before or after responding)
SettleAction(rq0, action, out) ==
  LET sent == IF out = "rejectBefore" THEN rq0 ELSE Respond(rq0, "action", "ok") IN
  IF out = "resolve" THEN Finish([sent EXCEPT !.handler = "resolved"])
  ELSE IF CatchesRejection(action)
    THEN CatchAsyncRejection([sent EXCEPT !.handler = "rejected"])
  ELSE [sent EXCEPT !.handler = "rejected", !.phase = "leaked"]

\* ------------------------------------- the then-callback of the evaluation
\* variant: hasPassed is not looked at
HasPassedIgnored(out) == TRUE

\* `if (!validationRes.hasPassed)`
HasPassed(out) == out = "pass"

\* The parameter validation gate, where the wrapped action runs the original
\* one: without a validation spec the action runs at once; with one it runs
\* only if validateParams throws nothing, a failed validation is answered
\* with badRequest and a configuration error with a server error.
ValidationGate(rq, action, joiOut, wlOut, hOut) ==
  IF ~Truthy(validations) THEN InvokeAction(rq, action, hOut)
  ELSE
  LET v == ValidateParams(rq, validations, joiOut, wlOut)
      rqv == [rq EXCEPT !.validatedParams = v.validatedParams,
                        !.validation = v.threw]
  IN
  IF ValidationPasses(v.threw) THEN InvokeAction(rqv, action, hOut)
  ELSE IF v.threw = "fatal"
    THEN Finish(Respond(Log(rqv, "error:validation"),
                        "pipeline", "serverError:validation"))
  ELSE Finish(Respond(rqv, "pipeline", "badRequest"))

\* the then-callback: `out` is the evaluation's result: "pass", "fail", or
\* "failThrown" (failed with thrownErrors)
ThenCallback(rq0, action, out, joiOut, wlOut, hOut) ==
  LET rq == [rq0 EXCEPT !.auth = IF out = "pass" THEN "pass" ELSE "fail"] IN
  IF ~HasPassed(out)
    THEN Finish(Respond(IF out = "failThrown" THEN Log(rq, "error:thrownErrors")
                        ELSE rq,
                        "pipeline", "forbidden"))
    ELSE ValidationGate(rq, action, joiOut, wlOut, hOut)

\* What the collaborators can answer in a given state: Joi and the models'
\* validators only where the spec has such a schema, the action's way of
\* ending only for a synchronous action.
JoiOutcomes ==
  IF ExtractSubschema(validations).joiSchema # Null THEN {"ok", "fail"} ELSE {"ok"}
WaterlineOutcomes ==
  IF ExtractSubschema(validations).waterlineSchema # Null
    THEN {"ok", "fail", "fatal"} ELSE {"ok"}
ActionOutcomes(action) ==
  IF action.isAsync THEN {"promise"}
  ELSE {"return", "throwBefore", "throwAfter", "promise"}

\* ------------------------------------------------------------ _collectFails
\* explanations of failed validations: plain values, errors of the error
\* hook by name, and a missing (falsy) explanation
Plain(i) == [t |-> "plain", i |-> i]
Rich(name) == [t |-> "rich", name |-> name, context |-> Undefined]
ExplanationValues ==
  { Undefined, Plain(1), Plain(2), Rich("notLoggedInError"), Rich("otherError") }
FailedValidation(explanation) == [explanation |-> explanation]

\* failedValidations: not an array, or an array of failed validations
FailedLists ==
  UNION { [1..n -> {FailedValidation(x) : x \in ExplanationValues}] :
            n \in 0..MaxFails }
FailedInputs == { Undefined } \cup { Array(l) : l \in FailedLists }

\* global.ErrorService: missing, the error hook's service, or an object with
\* only some of its functions
Service(functions) == [t |-> "object", functions |-> functions]
Services ==
  { Undefined,
    Service({"isError", "isErrorGroup", "createError", "groupErrors"}),
    Service({"isError", "createError"}),
    Service({"groupErrors"}) }
\* `(global.ErrorService instanceof Object) && (global.ErrorService.f instanceof Function)`
HasFunction(svc, f) == svc.t = "object" /\ f \in svc.functions

\* sails.config.stockade.wrapErrors
WrapErrorsValues == { "all", "first", "notLoggedIn", "false" }

\* ErrorService.createError('unknownError', undefined, undefined, e)
CreateError(name, e) == [t |-> "rich", name |-> name, context |-> e]
TypeError == [t |-> "TypeError"]
\* the plain container `{ errors }`
Container(errors) == [t |-> "object", errors |-> errors]

\* failedValidations.filter(v => v.explanation).map(v => v.explanation)
ExplanationsOf(failedValidations) ==
  LET kept == SelectSeq(failedValidations.items,
                        LAMBDA v : Truthy(v.explanation))
  IN [i \in 1..Len(kept) |-> kept[i].explanation]

\* Array.prototype.find: the first element among those at the indices I
\* (the ones the callback accepts), undefined if there is none
Find(s, I) ==
  IF I = {} THEN Undefined ELSE s[CHOOSE i \in I : \A j \in I : i <= j]

\* variant: errors of the error hook are wrapped again
WrappersAllRewrap(errors, svc) ==
  [threw |-> NoThrow,
   errors |-> IF ~HasFunction(svc, "isError") THEN errors
              ELSE [i \in 1..Len(errors) |-> CreateError("unknownError", errors[i])]]

\* errorWrappers.all(errors)
WrappersAll(errors, svc) ==
  [threw |-> NoThrow,
   errors |-> IF ~HasFunction(svc, "isError") THEN errors
              ELSE [i \in 1..Len(errors) |->
                      IF errors[i].t = "rich" THEN errors[i]
                      ELSE CreateError("unknownError", errors[i])]]

\* `this.all(errors)` inside a wrapper that was called as `wrap(explanations)`:
\* the wrapper is called without its object, `this` is undefined and reading
\* `this.all` throws a TypeError
ThisAll(errors, svc) == [threw |-> TypeError, errors |-> <<>>]

\* errorWrappers.first(errors)
WrappersFirst(errors, svc) ==
  LET fpError == IF HasFunction(svc, "isError")
                   THEN Find(errors, {i \in 1..Len(errors) : errors[i].t = "rich"})
                   ELSE Undefined
  IN IF Truthy(fpError) THEN [threw |-> NoThrow, errors |-> <<fpError>>]
     ELSE ThisAll(Slice(errors, 1), svc)

\* errorWrappers.notLoggedIn(errors)
WrappersNotLoggedIn(errors, svc) ==
  IF ~HasFunction(svc, "isError") THEN [threw |-> NoThrow, errors |-> errors]
  ELSE
  LET notLoggedInError ==
        Find(errors, {i \in 1..Len(errors) :
                        errors[i].t = "rich" /\ errors[i].name = "notLoggedInError"})
  IN IF notLoggedInError.t = "rich"
       THEN [threw |-> NoThrow, errors |-> <<notLoggedInError>>]
       ELSE ThisAll(errors, svc)

\* `errorWrappers[stockadeConfig.wrapErrors]`: whether there is a wrapper
HasWrap(wrapErrors) == wrapErrors \in {"all", "first", "notLoggedIn"}

\* `wrap ? wrap(explanations) : explanations`
Wrap(wrapErrors, explanations, svc) ==
  IF wrapErrors = "all" THEN WrappersAll(explanations, svc)
  ELSE IF wrapErrors = "first" THEN WrappersFirst(explanations, svc)
  ELSE IF wrapErrors = "notLoggedIn" THEN WrappersNotLoggedIn(explanations, svc)
  ELSE [threw |-> NoThrow, errors |-> explanations]

\* variant: the errors are always returned in the plain container
GroupedInContainer(errors, wrapErrors, svc) == Container(errors)

\* the value returned for the wrapped errors: grouped by the error hook when
\* there is a wrapper and the service has groupErrors, `{ errors }` otherwise
Grouped(errors, wrapErrors, svc) ==
  IF HasWrap(wrapErrors) /\ HasFunction(svc, "groupErrors")
    THEN IF Len(errors) = 0 THEN Array(<<>>)
         ELSE IF Len(errors) = 1 THEN errors[1]
         ELSE GroupErrors(errors)
    ELSE Container(errors)

\* a call of _collectFails: its arguments and configuration, its position,
\* the explanations, the wrapped errors, and what it returns or throws
NoCollect ==
  [pc |-> "idle", failedValidations |-> Undefined, service |-> Undefined,
   wrapErrors |-> "false", explanations |-> <<>>, errors |-> <<>>,
   result |-> Undefined, threw |-> NoThrow]

\* ---------------------------------------------------- tryGetErrorService
\* the values of global.ErrorService: none, or one of two objects, each with
\* all four functions of the error hook's service, with three, or with none
GlobalServices ==
  { Undefined } \cup
  { [t |-> "object", id |-> i, functions |-> fs] :
      i \in 1..2,
      fs \in { {"isError", "isErrorGroup", "createError", "groupErrors"},
               {"isError", "isErrorGroup", "createError"}, {} } }

\* variant: the global is checked at every call, nothing is cached
GetErrorServiceUncached(cacheErrorService, global) ==
  IF \E f \in {"isError", "isErrorGroup", "createError", "groupErrors"} :
       ~HasFunction(global, f)
    THEN [result |-> Null, cacheErrorService |-> cacheErrorService]
    ELSE [result |-> global, cacheErrorService |-> cacheErrorService]

\* getErrorService(): what it returns and the cache afterwards
GetErrorService(cacheErrorService, global) ==
  IF Truthy(cacheErrorService)
    THEN [result |-> cacheErrorService, cacheErrorService |-> cacheErrorService]
  ELSE IF \E f \in {"isError", "isErrorGroup", "createError", "groupErrors"} :
            ~HasFunction(global, f)
    THEN [result |-> Null, cacheErrorService |-> cacheErrorService]
    ELSE [result |-> global, cacheErrorService |-> global]

\* the module as loaded: `let cacheErrorService = null`, no call made yet.
\* `results` lists what the calls returned, `seen` what global.ErrorService
\* was when each call was made.
NoHelper ==
  [global |-> Undefined, cacheErrorService |-> Null, results |-> <<>>,
   seen |-> <<>>]

\* ------------------------------------------- the inputs of validateParams
ParamNames == {"p", "q"}
Attrs == {<<"n">>, <<"e">>}

\* the lists of references of an {or: [...]} or {and: [...]} rule
RefLists == UNION { [1..n -> ValidRefs] : n \in 0..MaxRefs }

\* the rules of the parameters p and q in a Waterline schema
RulesOfP ==
  { StrRule(ref) : ref \in ValidRefs \cup {S_OneFragment, S_Xn, S_Bn} }
    \cup { OrRule(l) : l \in RefLists } \cup { AndRule(l) : l \in RefLists }
    \cup { OrRule(<<S_Un, S_OneFragment>>), BadObjectRule, NumberRule }
RulesOfQ == { StrRule(S_Ue), StrRule(S_OneFragment) }

\* a Waterline schema: its entries in the order `for ... in` visits them
Entry(name, rule) == [name |-> name, rule |-> rule]
WlSchema(rules) == [t |-> "object", rules |-> rules]
WaterlineSchemas ==
  { WlSchema(<<Entry("p", r)>>) : r \in RulesOfP }
    \cup { WlSchema(<<Entry("p", r), Entry("q", r2)>>) :
             r \in RulesOfP, r2 \in RulesOfQ }

\* the validation specs handed to validateParams
\* (a spec that is no object; the empty spec and a simple one with a key;
\* a constructed Joi schema and a tuple; advanced specs whose `joi` is a plain
\* object, a tuple, a constructed schema or a string, and whose `waterline`
\* is a schema or a string)
ParamSchemas ==
  { Undefined, Null, BadString,
    VSpec(Undefined, Undefined),
    [t |-> "object", joi |-> Undefined, waterline |-> Undefined, name |-> BadString],
    JoiObjectKeys(PlainObject), Array(<<PlainObject, PlainObject>>),
    VSpec(PlainObject, Undefined), VSpec(JoiObjectKeys(PlainObject), Undefined),
    VSpec(Array(<<PlainObject, PlainObject>>), Undefined),
    VSpec(Array(<<BadString, PlainObject>>), Undefined),
    VSpec(BadString, Undefined), VSpec(Undefined, BadString) }
    \cup { VSpec(j, w) : j \in {Undefined, PlainObject}, w \in WaterlineSchemas }

\* the request: the parameters it supplies, what Joi and the models'
\* validators find for them, and its validatedParams before the call
Inputs ==
  [params : SUBSET ParamNames, validators : [Attrs -> ValidatorOutcomes],
   joi : {"ok", "fail"}, prior : {"unset", "prior"}]
NoInput ==
  [params |-> {}, validators |-> [a \in Attrs |-> Outcome("ok", 0)],
   joi |-> "ok", prior |-> "unset"]

NoSub == [joiSchema |-> Null, joiSchemaOpts |-> Null, waterlineSchema |-> Null]
NoRun ==
  [pc |-> "idle", sub |-> NoSub, calls |-> <<>>, validatedParams |-> "unset",
   threw |-> NoThrow]
StartRun(prior) == [NoRun EXCEPT !.pc = "start", !.validatedParams = prior]

\* ------------------------------------------------------------------ actions
Init ==
  /\ hostAction \in HostActions
  /\ actions = [id \in ActionIds |-> IF id = ActionId THEN hostAction ELSE Undefined]
  /\ natural \in NaturalValues
  /\ marlin \in MarlinValues
  /\ errorService \in BOOLEAN
  /\ validations \in ValidationSpecs
  /\ routeCount = [id \in ActionIds |-> 0]
  /\ req = [r \in Requests |-> NewRequest]
  /\ input = NoInput
  /\ run = NoRun
  /\ collect = NoCollect
  /\ errorsHelper = NoHelper

\* sails.on('router:route'): the event names an action identity, or none
RouteEvent(id) ==
  /\ routeCount[ActionId] + routeCount[UnknownId] < MaxRoute
  /\ routeCount' = [routeCount EXCEPT ![id] = @ + 1]
  /\ actions' = PatchAction(actions, id)
  /\ UNCHANGED <<hostAction, natural, marlin, errorService, validations, req>>
  /\ UNCHANGED <<paramVars, collect, errorsHelper>>

\* Some code assigns `sails._actions[id]._aclHookPatch = v` on a wrapper: the
\* assignment changes the marker only if the property is writable.
AssignMarker(id, v) ==
  /\ actions[id].t = "function" /\ actions[id].kind = "wrapper"
  /\ actions' = IF MarkerWritable(actions[id])
                  THEN [actions EXCEPT ![id].marker = v] ELSE actions
  /\ UNCHANGED <<hostAction, natural, marlin, errorService, validations,
                 routeCount, req>>
  /\ UNCHANGED <<paramVars, collect, errorsHelper>>

\* The host dispatches request r to the registry entry of the action.  A
\* wrapper runs _executeActionWrapped on the action it closes over; an
\* unpatched action runs as the host runs it.
Dispatch(r, engine) ==
  /\ req[r].phase = "new"
  /\ LET entry == actions[ActionId]
         rq == [req[r] EXCEPT !.entry = entry]
     IN
     IF entry.kind = "wrapper"
       THEN LET res == ExecuteActionWrapped(rq, entry.target, engine) IN
            /\ req' = [req EXCEPT ![r] = res.rq]
            /\ natural' = res.natural
       ELSE /\ req' = [req EXCEPT ![r] =
                        Finish([Respond(rq, "action", "ok")
                                  EXCEPT !.handlerCalls = 1, !.returned = TRUE,
                                         !.handler = "returned"])]
            /\ natural' = natural
  /\ UNCHANGED <<actions, hostAction, marlin, errorService, validations, routeCount>>
  /\ UNCHANGED <<paramVars, collect, errorsHelper>>

\* The promise of Permissions.validate resolves with hasPassed false: the
\* then-callback answers 'forbidden'.
AuthFail(r, out) ==
  /\ req[r].phase = "authorizing"
  /\ req' = [req EXCEPT ![r] =
               ThenCallback(req[r], req[r].entry.target, out, "ok", "ok", "return")]
  /\ UNCHANGED <<actions, hostAction, natural, marlin, errorService, validations,
                 routeCount>>
  /\ UNCHANGED <<paramVars, collect, errorsHelper>>

\* The promise of Permissions.validate resolves with hasPassed true: the
\* then-callback validates the parameters and runs the original action.
AuthPass(r, joiOut, wlOut, hOut) ==
  /\ req[r].phase = "authorizing"
  /\ hOut \in ActionOutcomes(req[r].entry.target)
  /\ req' = [req EXCEPT ![r] =
               ThenCallback(req[r], req[r].entry.target, "pass", joiOut, wlOut, hOut)]
  /\ UNCHANGED <<actions, hostAction, natural, marlin, errorService, validations,
                 routeCount>>
  /\ UNCHANGED <<paramVars, collect, errorsHelper>>

\* The promise of Permissions.validate rejects: the then-callback is skipped
\* and `.catch(err => { throw err; })` rejects the chain, which nobody awaits.
AuthReject(r) ==
  /\ req[r].phase = "authorizing"
  /\ req' = [req EXCEPT ![r] = [@ EXCEPT !.auth = "rejected", !.phase = "leaked"]]
  /\ UNCHANGED <<actions, hostAction, natural, marlin, errorService, validations,
                 routeCount>>
  /\ UNCHANGED <<paramVars, collect, errorsHelper>>

\* The promise returned by the original action settles.
ActionSettle(r, out) ==
  /\ req[r].phase = "executing"
  /\ req' = [req EXCEPT ![r] = SettleAction(req[r], req[r].entry.target, out)]
  /\ UNCHANGED <<actions, hostAction, natural, marlin, errorService, validations,
                 routeCount>>
  /\ UNCHANGED <<paramVars, collect, errorsHelper>>

Next ==
  \/ \E id \in ActionIds : RouteEvent(id)
  \/ \E id \in ActionIds, v \in BOOLEAN : AssignMarker(id, v)
  \/ \E r \in Requests, engine \in {"throws", "promise"} : Dispatch(r, engine)
  \/ \E r \in Requests, out \in {"fail", "failThrown"} : AuthFail(r, out)
  \/ \E r \in Requests, joiOut \in JoiOutcomes, wlOut \in WaterlineOutcomes,
        hOut \in {"return", "throwBefore", "throwAfter", "promise"} :
       AuthPass(r, joiOut, wlOut, hOut)
  \/ \E r \in Requests : AuthReject(r)
  \/ \E r \in Requests, out \in {"resolve", "rejectBefore", "rejectAfter"} :
       ActionSettle(r, out)

Spec == Init /\ [][Next]_vars

\* ------------------------------------------------ validateParams, stepwise
hookVars == <<actions, hostAction, natural, marlin, routeCount, req>>

\* A call of validateParams(req, actionInfo, schema) on its own: no action is
\* registered, the schema, the request and the validators' findings vary.
ParamInit ==
  /\ hostAction = Undefined
  /\ actions = [id \in ActionIds |-> Undefined]
  /\ natural = Undefined
  /\ marlin = Undefined
  /\ routeCount = [id \in ActionIds |-> 0]
  /\ req = [r \in Requests |-> NewRequest]
  /\ errorService \in BOOLEAN
  /\ validations \in ParamSchemas
  /\ input \in Inputs
  /\ input.joi \in JoiOutcomes
  /\ run = StartRun(input.prior)
  /\ collect = NoCollect
  /\ errorsHelper = NoHelper

\* `const { joiSchema, joiSchemaOpts, waterlineSchema } = extractSubschema(schema)`
ExtractStep ==
  /\ run.pc = "start"
  /\ run' = [run EXCEPT !.pc = "extracted", !.sub = ExtractSubschema(validations)]
  /\ UNCHANGED <<hookVars, errorService, validations, input, collect, errorsHelper>>

\* `if (joiSchema) { ... }`: testJoiValidations throws, or its result becomes
\* req.validatedParams
JoiStep ==
  /\ run.pc = "extracted"
  /\ run' = IF run.sub.joiSchema # Null
              THEN LET called == [run EXCEPT !.calls = Append(@, JoiCall)] IN
                   IF JoiFails(input.joi)
                     THEN [called EXCEPT !.pc = "threw", !.threw = JoiError]
                     ELSE [SetValidatedParams(called, "sanitised")
                             EXCEPT !.pc = "joiDone"]
              ELSE [run EXCEPT !.pc = "joiDone"]
  /\ UNCHANGED <<hookVars, errorService, validations, input, collect, errorsHelper>>

\* `if (waterlineSchema) { ... }` and `return true`
WaterlineStep ==
  /\ run.pc = "joiDone"
  /\ run' = IF run.sub.waterlineSchema # Null
              THEN LET w == TestWaterlineValidations(run.sub.waterlineSchema,
                                                     run.calls)
                   IN [run EXCEPT !.calls = w.calls, !.threw = w.threw,
                                  !.pc = IF w.threw = NoThrow THEN "returned"
                                         ELSE "threw"]
              ELSE [run EXCEPT !.pc = "returned"]
  /\ UNCHANGED <<hookVars, errorService, validations, input, collect, errorsHelper>>

ParamNext == ExtractStep \/ JoiStep \/ WaterlineStep

ParamSpec == ParamInit /\ [][ParamNext]_vars

\* ------------------------------------------------- _collectFails, stepwise
\* A call of _collectFails(failedValidations) on its own.
CollectInit ==
  /\ hostAction = Undefined
  /\ actions = [id \in ActionIds |-> Undefined]
  /\ natural = Undefined
  /\ marlin = Undefined
  /\ routeCount = [id \in ActionIds |-> 0]
  /\ req = [r \in Requests |-> NewRequest]
  /\ errorService = FALSE
  /\ validations = Undefined
  /\ input = NoInput
  /\ run = NoRun
  /\ errorsHelper = NoHelper
  /\ \E f \in FailedInputs, svc \in Services, w \in WrapErrorsValues :
       collect = [NoCollect EXCEPT !.pc = "start", !.failedValidations = f,
                                   !.service = svc, !.wrapErrors = w]

\* `if (!Array.isArray(failedValidations))`, and the explanations extracted
CollectStart ==
  /\ collect.pc = "start"
  /\ collect' =
       IF ~IsArray(collect.failedValidations)
         THEN [collect EXCEPT !.pc = "returned",
                 !.result = IF Truthy(collect.service) THEN Array(<<>>)
                            ELSE Container(<<>>)]
         ELSE [collect EXCEPT !.pc = "wrap",
                 !.explanations = ExplanationsOf(collect.failedValidations)]
  /\ UNCHANGED <<hookVars, errorService, validations, paramVars, errorsHelper>>

\* `const errors = wrap ? wrap(explanations) : explanations`
CollectWrap ==
  /\ collect.pc = "wrap"
  /\ LET w == Wrap(collect.wrapErrors, collect.explanations, collect.service) IN
     collect' = IF w.threw # NoThrow
                  THEN [collect EXCEPT !.pc = "threw", !.threw = w.threw]
                  ELSE [collect EXCEPT !.pc = "group", !.errors = w.errors]
  /\ UNCHANGED <<hookVars, errorService, validations, paramVars, errorsHelper>>

\* the value returned: grouped, or `{ errors }`
CollectGroup ==
  /\ collect.pc = "group"
  /\ collect' = [collect EXCEPT !.pc = "returned",
                   !.result = Grouped(collect.errors, collect.wrapErrors,
                                      collect.service)]
  /\ UNCHANGED <<hookVars, errorService, validations, paramVars, errorsHelper>>

CollectNext == CollectStart \/ CollectWrap \/ CollectGroup

CollectSpec == CollectInit /\ [][CollectNext]_vars

\* ------------------------------------------------- tryGetErrorService calls
\* The helper module on its own: the global service is set, replaced and
\* removed between the calls of tryGetErrorService.
HelperInit ==
  /\ hostAction = Undefined
  /\ actions = [id \in ActionIds |-> Undefined]
  /\ natural = Undefined
  /\ marlin = Undefined
  /\ routeCount = [id \in ActionIds |-> 0]
  /\ req = [r \in Requests |-> NewRequest]
  /\ errorService = FALSE
  /\ validations = Undefined
  /\ input = NoInput
  /\ run = NoRun
  /\ collect = NoCollect
  /\ errorsHelper \in {[NoHelper EXCEPT !.global = g] : g \in GlobalServices}

\* other code assigns or deletes global.ErrorService
SetGlobalErrorService(g) ==
  /\ g # errorsHelper.global
  /\ errorsHelper' = [errorsHelper EXCEPT !.global = g]
  /\ UNCHANGED <<hookVars, errorService, validations, paramVars, collect>>

\* a call of tryGetErrorService()
TryGetErrorService ==
  /\ Len(errorsHelper.results) < MaxCalls
  /\ LET out == GetErrorService(errorsHelper.cacheErrorService,
                                errorsHelper.global) IN
     errorsHelper' = [errorsHelper EXCEPT
                        !.cacheErrorService = out.cacheErrorService,
                        !.results = Append(@, out.result),
                        !.seen = Append(@, errorsHelper.global)]
  /\ UNCHANGED <<hookVars, errorService, validations, paramVars, collect>>

HelperNext ==
  \/ \E g \in GlobalServices : SetGlobalErrorService(g)
  \/ TryGetErrorService

HelperSpec == HelperInit /\ [][HelperNext]_vars

\* ------------------------------------------------------------------ claims
\* request r was dispatched to a wrapper
Wrapped(r) == req[r].entry.t = "function" /\ req[r].entry.kind = "wrapper"
Terminal(r) == req[r].phase \in {"done", "leaked"}
ByPipeline(kind) == [by |-> "pipeline", kind |-> kind]
ByAction == [by |-> "action", kind |-> "ok"]
PipelineWrites(rq) ==
  Cardinality({i \in 1..Len(rq.responses) : rq.responses[i].by = "pipeline"})

\* request r got past the tag check and the configuration checks
ReachedLookup(r) ==
  /\ req[r].phase # "new"
  /\ req[r].logs \cap {"warn:malformedAction", "error:noControllers",
                       "error:noController", "error:marlinPerms",
                       "error:naturalPerms"} = {}

\* the merged permission table defines a matcher under `key`
HoldsMatcherFor(key) ==
  LET own == AllPerms(NaturalPerms(Controller(S_user)),
                      MarlinPerms(MarlinController(S_user))).own
  IN key \in DOMAIN own /\ Truthy(own[key])

\* C1: default-deny.  A request dispatched to a wrapped action whose merged
\* permission table holds no matcher for the action is answered 'forbidden',
\* and the original action is never invoked.
C1_DefaultDeny ==
  \A r \in Requests :
    (Wrapped(r) /\ ReachedLookup(r) /\ ~HoldsMatcherFor(hostAction.key))
      => /\ req[r].handlerCalls = 0
         /\ Terminal(r) => req[r].responses = <<ByPipeline("forbidden")>>

C4_PatchIdempotent ==
  /\ [](/\ WrapDepth(actions[ActionId]) <= 1
        /\ routeCount[ActionId] >= 1 =>
             /\ actions[ActionId].kind = "wrapper"
             /\ actions[ActionId].target = hostAction)
  /\ [][actions[ActionId].marker => actions' = actions]_vars

C4_Witness ==
  /\ routeCount[ActionId] >= 2
  /\ actions[ActionId].kind = "wrapper"
  /\ actions[ActionId].target = hostAction

\* C5: every execution of a wrapped action ends with exactly one response
\* written.
C5_ExactlyOneResponse ==
  \A r \in Requests :
    (Wrapped(r) /\ Terminal(r)) => Len(req[r].responses) = 1

\* C6: when the promise of the authorization engine rejects, the request
\* ends with a server-error response, the rejection does not leak past the
\* wrapped action, and the original action is not invoked.
C6_RejectionIsServerError ==
  \A r \in Requests :
    (Wrapped(r) /\ req[r].auth = "rejected") =>
      /\ req[r].phase = "done"
      /\ req[r].responses = <<ByPipeline("serverError:thrown")>>
      /\ req[r].handlerCalls = 0

\* C7: every failure of the original action, a synchronous throw or a
\* rejection of the promise it returns, is caught by the wrapped action and,
\* if no response has been sent yet, answered with a server error.
C7_ActionFailureCaught ==
  \A r \in Requests :
    (Wrapped(r) /\ req[r].handler \in {"threw", "rejected"}) =>
      /\ req[r].phase = "done"
      /\ \/ req[r].responses = <<ByAction>>
         \/ req[r].responses = <<ByPipeline("serverError:action")>>

\* C8: the pipeline never double-writes.  It writes at most one response per
\* execution, and none after the original action has sent one.
C8_NoDoubleWrite ==
  \A r \in Requests :
    Wrapped(r) =>
      /\ PipelineWrites(req[r]) <= 1
      /\ \A i, j \in 1..Len(req[r].responses) :
           (i < j /\ req[r].responses[i].by = "action")
             => req[r].responses[j].by # "pipeline"

C8_Witness ==
  \E r \in Requests :
    /\ Wrapped(r) /\ req[r].handler \in {"threw", "rejected"}
    /\ req[r].phase = "done"
    /\ req[r].responses = <<ByAction>>

\* C9: the call of the wrapped action does not complete before the
\* authorization evaluation and the original action have completed.
C9_AwaitsBoth ==
  \A r \in Requests :
    (Wrapped(r) /\ req[r].returned) =>
      req[r].phase \notin {"authorizing", "executing"}

\* a wrapper as _patchAction leaves it: marker set, every property copied
FullyBuilt(a) ==
  /\ a.kind = "wrapper" /\ a.marker
  /\ DOMAIN a.props = DOMAIN a.target.props
  /\ \A k \in DOMAIN a.props : a.props[k] = a.target.props[k]

\* C10: whatever the interleaving of route events and dispatches, a dispatch
\* reads from the registry either the original action or a fully built
\* wrapper.
C10_NoPartialWrap ==
  /\ actions[ActionId] = hostAction \/ FullyBuilt(actions[ActionId])
  /\ \A r \in Requests :
       req[r].phase # "new" =>
         req[r].entry = hostAction \/ FullyBuilt(req[r].entry)

C10_Witness ==
  \E r \in Requests :
    /\ req[r].phase # "new" /\ FullyBuilt(req[r].entry)
    /\ routeCount[ActionId] >= 1

\* the effective table the claim describes for sources A and B: B's value
\* where B defines the key, A's value otherwise
MergedBySpec(A, B) ==
  [k \in (DOMAIN A) \cup (DOMAIN B) |-> IF k \in DOMAIN B THEN B[k] ELSE A[k]]

\* C11: permission merge precedence.  When a request reaches the matcher
\* lookup, the effective table maps every key to the controller `_config`
\* value when that source defines it and to the blueprints value otherwise,
\* values replaced wholesale, and the matcher handed to the engine is that
\* table's entry.
C11_MergePrecedence ==
  [][\A r \in Requests :
       (req[r].phase = "new" /\ Wrapped(r)' /\ ReachedLookup(r)') =>
         LET A == OwnOrEmpty(NaturalPerms(Controller(S_user)))
             B == OwnOrEmpty(MarlinPerms(MarlinController(S_user)))
             effective == Obj(MergedBySpec(A, B))
             key == ActionCaseName(hostAction)
         IN /\ Truthy(NaturalPerms(Controller(S_user)))
                 => natural'.permissions = effective
            /\ req'[r].engineCalls > 0 => req'[r].matcher = Get(effective, key)
            /\ req'[r].engineCalls = 0 => ~Truthy(Get(effective, key))]_vars

C11_Witness ==
  \E r \in Requests :
    /\ Wrapped(r) /\ req[r].matcher = Matcher("m2")
    /\ marlin = MCtl(Ctl(Obj(S_getInfo :> Matcher("m2"))))
    /\ natural = Ctl(Obj((S_find :> Matcher("m1")) @@ (S_getInfo :> Matcher("m2"))))

\* C12: the merge is pure.  Handling a request leaves both permission
\* sources as they were at controller load.
C12_SourcesUnchanged ==
  [][natural' = natural /\ marlin' = marlin]_vars

\* a `permissions` value that exists and is not an object
ExistsNotObject(perms) == perms.t \notin {"undefined", "object", "matcher"}
\* neither configuration source has an entry for the controller
NoControllerEntry ==
  ~Truthy(Controller(S_user)) /\ ~Truthy(MarlinController(S_user))
\* request r was dispatched to a wrapper and got past the tag check
PastTagCheck(r) == Wrapped(r) /\ "warn:malformedAction" \notin req[r].logs
AnsweredBadConfig(r) ==
  /\ req[r].phase = "done"
  /\ req[r].responses = <<ByPipeline("serverError:badConfig")>>
  /\ req[r].engineCalls = 0 /\ req[r].handlerCalls = 0

\* C13 as stated: a request fails with the 'bad config' server error, the
\* engine and the original action not consulted, whenever neither source has
\* an entry for the controller or a `permissions` field exists but is not an
\* object.
C13_BadConfigIfExists ==
  \A r \in Requests :
    (PastTagCheck(r)
       /\ (\/ NoControllerEntry
           \/ ExistsNotObject(NaturalPerms(Controller(S_user)))
           \/ ExistsNotObject(MarlinPerms(MarlinController(S_user)))))
      => AnsweredBadConfig(r)

\* C13 amended: a request fails with the 'bad config' server error, the
\* engine and the original action not consulted, whenever neither source has
\* an entry for the controller or a `permissions` field is truthy but not an
\* object.
C13_BadConfigIfTruthy ==
  \A r \in Requests :
    (PastTagCheck(r)
       /\ (\/ NoControllerEntry
           \/ (Truthy(NaturalPerms(Controller(S_user)))
                 /\ ExistsNotObject(NaturalPerms(Controller(S_user))))
           \/ (Truthy(MarlinPerms(MarlinController(S_user)))
                 /\ ExistsNotObject(MarlinPerms(MarlinController(S_user))))))
      => AnsweredBadConfig(r)

C13_Witness ==
  \E r \in Requests :
    /\ PastTagCheck(r) /\ natural = Ctl(BadString)
    /\ marlin = MCtl(Ctl(Obj(S_getInfo :> Matcher("m2"))))
    /\ AnsweredBadConfig(r)

\* the tag is missing, not a string, or does not start with 'ACTION:'
TagMalformed(a) ==
  LET mt == a.props["_middlewareType"] IN
  \/ mt.t # "string"
  \/ Len(mt.s) < Len(ACTION_PREFIX)
  \/ \E i \in 1..Len(ACTION_PREFIX) : mt.s[i] # ACTION_PREFIX[i]

\* C14: a wrapped action whose middleware-type tag is missing, not a string
\* or without the 'ACTION:' prefix answers the 'malformed action' server
\* error and stops: no configuration check, no matcher lookup, no evaluation
\* and no invocation of the original action follow.
C14_MalformedStops ==
  \A r \in Requests :
    (Wrapped(r) /\ TagMalformed(hostAction)) =>
      /\ req[r].phase = "done"
      /\ req[r].responses = <<ByPipeline("serverError:malformedAction")>>
      /\ req[r].logs = {"warn:malformedAction"}
      /\ req[r].matcher = Undefined
      /\ req[r].engineCalls = 0 /\ req[r].handlerCalls = 0

C14_Witness ==
  \E r \in Requests :
    /\ Wrapped(r)
    /\ hostAction.props["_middlewareType"] = [t |-> "string", s |-> S_policy]
    /\ req[r].responses = <<ByPipeline("serverError:malformedAction")>>

\* C15: the matcher is looked up under the bare name of the action the tag
\* names, in its own case (the last component of the action path names it,
\* the leading components the controller): the engine is consulted exactly
\* when the merged table has an entry for that name, and with that entry.
C15_LookupByActionName ==
  \A r \in Requests :
    (Wrapped(r) /\ ReachedLookup(r)) =>
      LET own == AllPerms(NaturalPerms(Controller(S_user)),
                          MarlinPerms(MarlinController(S_user))).own
          key == hostAction.key
      IN /\ ControllerIdent(hostAction) = S_user
         /\ ActionName(hostAction) \in {S_getinfo, S_tostring}
         /\ req[r].engineCalls > 0 =>
              key \in DOMAIN own /\ req[r].matcher = own[key]
         /\ (key \in DOMAIN own /\ Truthy(own[key])) => req[r].engineCalls > 0

\* -------------------------------------------- claims about validateParams
\* the positions in the calls of Joi's validate and of the models' validate
JoiCalls == {i \in 1..Len(run.calls) : run.calls[i].kind = "joi"}
ValidateCalls == {i \in 1..Len(run.calls) : run.calls[i].kind = "validate"}
\* the call has ended, and not by a structural failure
PastJoi == run.pc \in {"returned", "threw"} /\ run.threw # JoiError
\* the Waterline schema is the one rule `rule` for the parameter p
OnlyRuleOfP(rule) ==
  /\ IsObject(validations) /\ IsObject(validations.waterline)
  /\ validations.waterline.rules = <<Entry("p", rule)>>
ValidatorFails(attr) == input.validators[attr].kind \in {"error", "group"}
ValidatorPasses(attr) == input.validators[attr].kind = "ok"

\* C16: in validateParams structural validation runs before attribute
\* validation, and when structural validation fails no validator of any
\* model is invoked.
C16_JoiBeforeWaterline ==
  /\ \A i \in JoiCalls, j \in ValidateCalls : i < j
  /\ (run.sub.joiSchema # Null /\ ValidateCalls # {}) => JoiCalls # {}
  /\ (JoiCalls # {} /\ input.joi = "fail") =>
       /\ ValidateCalls = {}
       /\ run.pc = "threw" /\ run.threw = JoiError

C16_Witness ==
  /\ validations = VSpec(PlainObject, WlSchema(<<Entry("p", StrRule(S_Un))>>))
  /\ "p" \in input.params /\ input.joi = "fail"
  /\ run.pc = "threw" /\ run.calls = <<JoiCall>>

\* C17: whenever structural validation runs without error, the sanitised
\* result is req.validatedParams before any attribute validation runs and
\* when validateParams ends; when no structural schema is extracted,
\* req.validatedParams is not assigned.
C17_ValidatedParams ==
  /\ (JoiCalls # {} /\ input.joi = "ok") => run.validatedParams = "sanitised"
  /\ (ValidateCalls # {} /\ run.sub.joiSchema # Null) =>
       run.validatedParams = "sanitised"
  /\ (run.pc \in {"extracted", "joiDone", "returned", "threw"}
        /\ run.sub.joiSchema = Null) => run.validatedParams = input.prior

C17_Witness ==
  /\ run.pc = "joiDone" /\ run.sub.waterlineSchema # Null
  /\ input.prior = "prior" /\ run.validatedParams = "sanitised"

\* C18: attribute `or` composition.  For the rule {or: [r1, r2]} and a
\* supplied value that fails r1's validator and passes r2's, attribute
\* validation returns null, nothing thrown, with or without an error
\* service.
C18_OrSucceeds ==
  (OnlyRuleOfP(OrRule(<<S_Un, S_Ue>>)) /\ "p" \in input.params
     /\ ValidatorFails(<<"n">>) /\ ValidatorPasses(<<"e">>) /\ PastJoi)
    => run.pc = "returned" /\ run.threw = NoThrow

\* the explanations an aggregate error carries
Explanations(e) ==
  IF e = NoThrow THEN <<>>
  ELSE IF e.t = "group" THEN e.errors
  ELSE IF e.t = "Error" /\ e.why = "multiple" THEN e.errors
  ELSE <<e>>

\* C19 as stated: attribute `and` composition.  For the rule {and: [x, y]}
\* where x's validator passes and y's fails, the aggregate error carries
\* exactly one explanation, the failure of y (without an error service: the
\* value y's validator raised).
C19_AndOneExplanation ==
  (OnlyRuleOfP(AndRule(<<S_Un, S_Ue>>)) /\ "p" \in input.params
     /\ ValidatorPasses(<<"n">>) /\ ValidatorFails(<<"e">>) /\ PastJoi)
    => /\ run.pc = "threw"
       /\ errorService =>
            /\ Len(Explanations(run.threw)) = 1
            /\ Explanations(run.threw)[1].attr = <<"e">>
       /\ ~errorService => run.threw = ModelValidate(<<"e">>)

\* C19 amended: for the rule {and: [x, y]} where x's validator passes and
\* y's fails with a single error, the aggregate error is exactly that one
\* explanation, the failure of y.
C19_AndSingleFailure ==
  (OnlyRuleOfP(AndRule(<<S_Un, S_Ue>>)) /\ "p" \in input.params
     /\ ValidatorPasses(<<"n">>) /\ input.validators[<<"e">>].kind = "error"
     /\ PastJoi)
    => run.pc = "threw" /\ run.threw = E(<<"e">>, 0)

C19_Witness ==
  /\ OnlyRuleOfP(AndRule(<<S_Un, S_Ue>>)) /\ "p" \in input.params
  /\ errorService
  /\ ValidatorPasses(<<"n">>) /\ input.validators[<<"e">>].kind = "error"
  /\ run.pc = "threw" /\ run.threw = E(<<"e">>, 0)
  /\ Cardinality(ValidateCalls) = 2

\* the explanations the validators of the references raise, in order
AttrOf(ref) == Split(ref, ".")[2]
RECURSIVE Collected(_)
Collected(refs) ==
  IF refs = <<>> THEN <<>>
  ELSE LET o == input.validators[AttrOf(Head(refs))] IN
       (IF o.kind = "error" THEN <<E(AttrOf(Head(refs)), 0)>>
        ELSE IF o.kind = "group"
          THEN [i \in 1..o.n |-> E(AttrOf(Head(refs)), i)]
        ELSE <<>>) \o Collected(Tail(refs))
FailedAttempts(refs) ==
  Cardinality({i \in 1..Len(refs) : ValidatorFails(AttrOf(refs[i]))})

\* the threshold rule for the references `refs` of the only rule, of the
\* supplied parameter p
ThresholdRule(refs, matchAll) ==
  LET n == Len(refs)
      required == IF matchAll THEN n ELSE 1
      actual == n - FailedAttempts(refs)
  IN IF actual >= required THEN run.pc = "returned" /\ run.threw = NoThrow
     ELSE Explanations(run.threw) = SubSeq(Collected(refs), 1,
                                           Min(required, Len(Collected(refs))))

\* C20: success threshold.  A supplied parameter with n references needs n
\* successes for `and` and 1 otherwise, has n minus the failed attempts (a
\* group is one attempt), passes iff it has as many as it needs, and
\* otherwise contributes the first `required` collected explanations and no
\* more.
C20_SuccessThreshold ==
  \A refs \in RefLists :
    (\A i \in 1..Len(refs) : input.validators[AttrOf(refs[i])].kind # "other")
      => /\ (OnlyRuleOfP(OrRule(refs)) /\ "p" \in input.params /\ PastJoi)
              => ThresholdRule(refs, FALSE)
         /\ (OnlyRuleOfP(AndRule(refs)) /\ "p" \in input.params /\ PastJoi)
              => ThresholdRule(refs, TRUE)

\* the entries of the Waterline schema, none when there is no such schema
SchemaEntries ==
  IF IsObject(validations) /\ IsObject(validations.waterline)
    THEN validations.waterline.rules ELSE <<>>
\* the rule lists its references, all of them well formed
WellFormedRule(rule) ==
  \/ rule \in {StrRule(ref) : ref \in ValidRefs}
  \/ rule \in {OrRule(l) : l \in RefLists} \cup {AndRule(l) : l \in RefLists}
RefsOf(rule) == ParamValidations(rule).validations
\* no validator of the references raises a value the error hook does not know
NoneUnknown(refs) ==
  \A i \in 1..Len(refs) : input.validators[AttrOf(refs[i])].kind # "other"

\* what a supplied parameter with a well-formed rule contributes by the
\* threshold rule
Contribution(rule) ==
  LET refs == RefsOf(rule)
      required == IF ParamValidations(rule).matchAll THEN Len(refs) ELSE 1
  IN IF Len(refs) - FailedAttempts(refs) >= required THEN <<>>
     ELSE SubSeq(Collected(refs), 1, Min(required, Len(Collected(refs))))
RECURSIVE CollectedFailures(_)
CollectedFailures(entries) ==
  IF entries = <<>> THEN <<>>
  ELSE (IF Head(entries).name \in input.params
          THEN Contribution(Head(entries).rule) ELSE <<>>)
         \o CollectedFailures(Tail(entries))

\* C21: final aggregation across parameters.  With no collected failure the
\* attribute validator returns null; with exactly one it throws that
\* explanation itself; with more than one it throws one group built by the
\* error service, or without the service a plain container of all of them.
C21_FinalAggregation ==
  (/\ SchemaEntries # <<>> /\ PastJoi
   /\ \A i \in 1..Len(SchemaEntries) :
        /\ WellFormedRule(SchemaEntries[i].rule)
        /\ NoneUnknown(RefsOf(SchemaEntries[i].rule)))
    => LET failures == CollectedFailures(SchemaEntries) IN
       IF Len(failures) = 0 THEN run.pc = "returned" /\ run.threw = NoThrow
       ELSE /\ run.pc = "threw"
            /\ run.threw = IF Len(failures) = 1 THEN failures[1]
                           ELSE IF errorService THEN Group(failures)
                           ELSE MultiError(failures)

\* a reference with one fragment, of no model, of a model without `validate`
BadRefs == {S_OneFragment, S_Xn, S_Bn}
IsConfigError(e) == e.t = "Error" /\ e.why \in {"fragments", "model"}

\* C22: a reference that does not split into exactly two fragments, or that
\* names a model that does not exist or cannot validate, raises a
\* configuration error as soon as it is reached: no validator is called for
\* it or after it, and the failures collected before it are discarded.
C22_FatalReference ==
  /\ \A bad \in BadRefs :
       (OnlyRuleOfP(StrRule(bad)) /\ "p" \in input.params /\ PastJoi)
         => /\ run.pc = "threw" /\ IsConfigError(run.threw)
            /\ ValidateCalls = {}
  /\ (OnlyRuleOfP(OrRule(<<S_Un, S_OneFragment>>)) /\ "p" \in input.params
        /\ PastJoi
        /\ (ValidatorPasses(<<"n">>) \/ (errorService /\ ValidatorFails(<<"n">>))))
       => /\ run.pc = "threw" /\ run.threw = ConfigError("fragments")
          /\ Cardinality(ValidateCalls) = 1
  /\ (/\ Len(SchemaEntries) = 2 /\ PastJoi /\ input.params = {"p", "q"}
      /\ WellFormedRule(SchemaEntries[1].rule)
      /\ NoneUnknown(RefsOf(SchemaEntries[1].rule))
      /\ SchemaEntries[2].rule = StrRule(S_OneFragment)
      /\ (errorService \/ FailedAttempts(RefsOf(SchemaEntries[1].rule)) = 0))
       => /\ run.pc = "threw" /\ run.threw = ConfigError("fragments")
          /\ \A i \in ValidateCalls : run.calls[i].param = "p"

C22_Witness ==
  /\ errorService /\ input.params = {"p", "q"}
  /\ SchemaEntries = <<Entry("p", StrRule(S_Un)), Entry("q", StrRule(S_OneFragment))>>
  /\ ValidatorFails(<<"n">>)
  /\ run.pc = "threw" /\ run.threw = ConfigError("fragments")
  /\ Cardinality(ValidateCalls) = 1

\* C23: a value raised by a model's validator that is neither an error nor
\* an error group of the error hook is not aggregated: it leaves the call at
\* once and unchanged, and no later reference or parameter is validated.
C23_UnknownPropagates ==
  \A i \in ValidateCalls :
    input.validators[run.calls[i].attr].kind = "other"
      => /\ i = Len(run.calls)
         /\ run.pc = "threw" /\ run.threw = Other(run.calls[i].attr)

C23_Witness ==
  /\ errorService /\ input.params = {"p", "q"}
  /\ SchemaEntries = <<Entry("p", OrRule(<<S_Un, S_Ue>>)), Entry("q", StrRule(S_Ue))>>
  /\ input.validators[<<"n">>].kind = "other" /\ ValidatorPasses(<<"e">>)
  /\ run.pc = "threw" /\ run.threw = Other(<<"n">>)
  /\ Cardinality(ValidateCalls) = 1

\* C24: attribute validation applies to supplied values only.  For a
\* parameter the schema declares and the request does not supply, no model
\* validator is invoked and no failure is collected.
C24_SuppliedOnly ==
  /\ \A i \in ValidateCalls : run.calls[i].param \in input.params
  /\ (/\ SchemaEntries # <<>> /\ PastJoi
      /\ \A i \in 1..Len(SchemaEntries) :
           SchemaEntries[i].name \notin input.params)
       => run.pc = "returned" /\ run.threw = NoThrow /\ ValidateCalls = {}

C24_Witness ==
  /\ input.params = {"q"}
  /\ SchemaEntries = <<Entry("p", StrRule(S_Un)), Entry("q", StrRule(S_Ue))>>
  /\ ValidatorFails(<<"n">>) /\ ValidatorPasses(<<"e">>)
  /\ run.pc = "returned"
  /\ run.calls = <<ValidateCall(<<"u">>, <<"e">>, "q")>>

\* ------------------------------------------------ claims on _collectFails
\* the call is past `wrap ? wrap(explanations) : explanations`
CollectPastWrap == collect.pc \in {"group", "returned", "threw"}
                   /\ IsArray(collect.failedValidations)
DetectsRich == HasFunction(collect.service, "isError")
RichAmong(errors) == {i \in 1..Len(errors) : errors[i].t = "rich"}

\* C25: with the strategy `first` the wrapped list is the first explanation
\* that is an error of the error service when the service can tell and there
\* is one; otherwise it is the first explanation alone, wrapped as `all`
\* would wrap it
C25_FirstStrategy ==
  (collect.wrapErrors = "first" /\ CollectPastWrap) =>
    /\ collect.threw = NoThrow
    /\ LET x == collect.explanations IN
       IF DetectsRich /\ RichAmong(x) # {}
         THEN collect.errors = <<Find(x, RichAmong(x))>>
         ELSE collect.errors = WrappersAll(Slice(x, 1), collect.service).errors

\* C26: with the strategy `notLoggedIn` the wrapped list is the explanation
\* named notLoggedInError alone when there is one; when there is none it is
\* the list the strategy `all` gives for the same explanations
C26_NotLoggedInStrategy ==
  (collect.wrapErrors = "notLoggedIn" /\ CollectPastWrap) =>
    /\ collect.threw = NoThrow
    /\ LET x == collect.explanations
           n == Find(x, {i \in RichAmong(x) : x[i].name = "notLoggedInError"})
       IN IF DetectsRich /\ n # Undefined
            THEN collect.errors = <<n>>
            ELSE collect.errors = WrappersAll(x, collect.service).errors

\* C27: with the strategy `all` the wrapped list has one entry per
\* explanation, in order: with the error service an explanation that is not
\* one of its errors is replaced by a new error carrying it and its errors
\* are kept; without a service every explanation is passed through
C27_AllStrategy ==
  (collect.wrapErrors = "all" /\ CollectPastWrap) =>
    LET x == collect.explanations
        y == collect.errors
    IN /\ collect.threw = NoThrow
       /\ Len(y) = Len(x)
       /\ collect.service = Undefined => y = x
       /\ (collect.service # Undefined /\ DetectsRich) =>
            \A i \in 1..Len(x) :
              IF x[i].t = "rich" THEN y[i] = x[i]
              ELSE y[i].t = "rich" /\ y[i].context = x[i] /\ y[i] # x[i]

C27_Witness ==
  /\ collect.wrapErrors = "all" /\ collect.pc = "returned"
  /\ DetectsRich
  /\ collect.explanations = <<Plain(1), Rich("otherError")>>
  /\ collect.errors = <<CreateError("unknownError", Plain(1)), Rich("otherError")>>

\* an empty result: the empty list or the container of no errors
EmptyResult(r) == r = Array(<<>>) \/ r = Container(<<>>)

Extracted == run.pc \in {"extracted", "joiDone", "returned", "threw"}
\* the whole spec taken as the Joi schema, no options, no Waterline schema
TakenAsSimple ==
  run.sub = [joiSchema |-> JoiObjectKeys(validations), joiSchemaOpts |-> Null,
             waterlineSchema |-> Null]

\* C29: a spec that is an object is advanced exactly if it has a `joi` or a
\* `waterline` field; any other is taken whole as the Joi schema, with no
\* Waterline schema
C29_AdvancedIffField ==
  (Extracted /\ validations.t = "object") =>
    (TakenAsSimple <=>
       (validations.joi = Undefined /\ validations.waterline = Undefined))

\* C30 as stated: the empty spec and every spec that is no object give three
\* nulls, and no validator is called
C30_EmptyOrNonObject ==
  (Extracted /\ (~InstanceofObject(validations)
                 \/ validations = VSpec(Undefined, Undefined))) =>
    /\ run.sub = NoSub
    /\ run.calls = <<>>

\* C30, amended: every spec that is no object gives three nulls and no
\* validator is called; the empty spec is a simple spec, taken whole as the
\* Joi schema
C30_NonObject ==
  /\ (Extracted /\ ~InstanceofObject(validations)) =>
       /\ run.sub = NoSub
       /\ run.calls = <<>>
       /\ run.threw = NoThrow
  /\ (Extracted /\ validations = VSpec(Undefined, Undefined)) => TakenAsSimple

C30_Witness ==
  /\ validations = BadString
  /\ run.pc = "returned"
  /\ run.sub = NoSub
  /\ run.calls = <<>>

\* ------------------------------------------- claims on the error handling
\* the configuration errors a request past the tag check can meet: no
\* `_controllers` table, no entry for the controller in either source, or a
\* `permissions` value that is truthy and not an object
ConfigErrorMet ==
  \/ natural.t = "nocontrollers"
  \/ NoControllerEntry
  \/ (Truthy(NaturalPerms(Controller(S_user)))
        /\ ExistsNotObject(NaturalPerms(Controller(S_user))))
  \/ (Truthy(MarlinPerms(MarlinController(S_user)))
        /\ ExistsNotObject(MarlinPerms(MarlinController(S_user))))
AnsweredServerError(r) ==
  /\ Len(req[r].responses) = 1
  /\ req[r].responses[1] \in {ByPipeline("serverError:malformedAction"),
                               ByPipeline("serverError:badConfig")}
LoggedAtError(r) ==
  req[r].logs \cap {"error:noControllers", "error:noController",
                    "error:marlinPerms", "error:naturalPerms"} # {}

\* C31 as stated: a request that meets a configuration error (malformed tag,
\* missing controller configuration, `permissions` that is not an object) is
\* answered with a server error and the error is logged at error severity
C31_ConfigErrorsLoggedAtError ==
  \A r \in Requests :
    (Wrapped(r) /\ (TagMalformed(hostAction) \/ ConfigErrorMet)) =>
      AnsweredServerError(r) /\ LoggedAtError(r)

\* C31, amended: a missing controller configuration and a `permissions` that
\* is not an object are answered with a server error and logged at error
\* severity; a malformed tag is answered with a server error and logged at
\* warning severity only
C31_ConfigErrorsAnswered ==
  \A r \in Requests :
    /\ (PastTagCheck(r) /\ ConfigErrorMet) =>
         AnsweredServerError(r) /\ LoggedAtError(r)
    /\ (Wrapped(r) /\ TagMalformed(hostAction)) =>
         AnsweredServerError(r) /\ req[r].logs = {"warn:malformedAction"}

C31_Witness ==
  \E r \in Requests :
    /\ PastTagCheck(r) /\ natural = Ctl(BadString)
    /\ req[r].logs = {"error:naturalPerms"}
    /\ req[r].responses = <<ByPipeline("serverError:badConfig")>>

\* the original action of request r failed on a path the pipeline catches:
\* it threw synchronously, or the promise of an AsyncFunction rejected
HandlerFailureCaught(r) ==
  /\ Wrapped(r) /\ req[r].phase = "done"
  /\ \/ req[r].handler = "threw"
     \/ req[r].handler = "rejected" /\ CatchesRejection(req[r].entry.target)

\* C32: on both paths the pipeline logs the action's error exactly when no
\* error service is installed
C32_LoggedIffNoService ==
  \A r \in Requests :
    HandlerFailureCaught(r) => ("error:action" \in req[r].logs <=> ~errorService)

\* C33: when the call of the authorization engine itself throws, the wrapped
\* action catches it, logs it and answers with one server error; the
\* original action is not invoked
C33_EngineThrowCaught ==
  \A r \in Requests :
    (Wrapped(r) /\ req[r].auth = "threw") =>
      /\ req[r].phase = "done"
      /\ req[r].responses = <<ByPipeline("serverError:thrown")>>
      /\ "error:validation" \in req[r].logs
      /\ req[r].handlerCalls = 0

C33_Witness ==
  \E r \in Requests :
    /\ req[r].auth = "threw" /\ req[r].engineCalls = 1
    /\ req[r].responses = <<ByPipeline("serverError:thrown")>>

\* ------------------------------------------------ claims on the wrapper
\* C34: a wrapper in the registry carries every enumerable property of the
\* action it wraps, with the same value, and its marker is true in every
\* state: no assignment and no route event changes or clears it
C34_WrapperKeepsPropsAndMarker ==
  \A id \in ActionIds :
    (actions[id].t = "function" /\ actions[id].kind = "wrapper") =>
      /\ DOMAIN actions[id].props = DOMAIN actions[id].target.props
      /\ \A k \in DOMAIN actions[id].target.props :
           actions[id].props[k] = actions[id].target.props[k]
      /\ actions[id].marker = TRUE
      /\ actions[id].target = hostAction

C34_Witness ==
  /\ actions[ActionId].kind = "wrapper"
  /\ routeCount[ActionId] = 2
  /\ actions[ActionId].marker = TRUE
  /\ actions[ActionId].props = hostAction.props

\* C35: in one execution of a wrapped action the engine is consulted at most
\* once and the original action invoked at most once, and each step comes
\* after the ones before it: a matcher is looked up only past the tag check
\* and the configuration checks, the engine is consulted only with a matcher
\* found, and the original action runs only after the evaluation passed
C35_OnceAndInOrder ==
  \A r \in Requests :
    Wrapped(r) =>
      /\ req[r].engineCalls <= 1 /\ req[r].handlerCalls <= 1
      /\ Truthy(req[r].matcher) => (~TagMalformed(hostAction) /\ ~ConfigErrorMet)
      /\ req[r].engineCalls = 1 => Truthy(req[r].matcher)
      /\ req[r].handlerCalls = 1 =>
           (req[r].engineCalls = 1 /\ req[r].auth = "pass")

C35_Witness ==
  \E r \in Requests :
    /\ Wrapped(r) /\ req[r].phase = "done"
    /\ Truthy(req[r].matcher)
    /\ req[r].engineCalls = 1 /\ req[r].handlerCalls = 1
    /\ req[r].auth = "pass"

\* C36: a matcher is resolved only from an entry one of the two sources
\* defines itself: when neither defines one under the name looked up (also a
\* name every object inherits), the request is forbidden by default and the
\* engine is not consulted
C36_OwnEntriesOnly ==
  \A r \in Requests :
    (Wrapped(r) /\ ReachedLookup(r)
       /\ ~HoldsMatcherFor(ActionCaseName(hostAction)))
      => /\ req[r].engineCalls = 0
         /\ req[r].responses = <<ByPipeline("forbidden")>>

\* ------------------------------------ further claims about validateParams
\* C37: attribute validation does not return null while a supplied parameter
\* with a well-formed rule has fewer successes than its rule requires (also
\* for an empty list of references and for a group of no errors)
C37_NoFalseSuccess ==
  (run.pc = "returned" /\ SchemaEntries # <<>>) =>
    \A i \in 1..Len(SchemaEntries) :
      (SchemaEntries[i].name \in input.params
         /\ WellFormedRule(SchemaEntries[i].rule)) =>
        LET refs == RefsOf(SchemaEntries[i].rule)
            required == IF ParamValidations(SchemaEntries[i].rule).matchAll
                          THEN Len(refs) ELSE 1
        IN Len(refs) - FailedAttempts(refs) >= required

\* C38 as stated: when validateParams throws, req.validatedParams is what it
\* was before the call
C38_FailureLeavesValidatedParams ==
  run.pc = "threw" => run.validatedParams = input.prior

\* C38, amended: when validateParams throws in structural validation,
\* req.validatedParams is what it was before the call; when it throws in
\* attribute validation after structural validation passed,
\* req.validatedParams is the sanitised result
C38_FailureAfterJoiReplaces ==
  run.pc = "threw" =>
    IF run.threw = JoiError \/ run.sub.joiSchema = Null
      THEN run.validatedParams = input.prior
      ELSE run.validatedParams = "sanitised"

C38_Witness ==
  /\ run.pc = "threw" /\ run.threw # JoiError
  /\ JoiCalls # {} /\ ValidateCalls # {}
  /\ input.prior = "prior" /\ run.validatedParams = "sanitised"

FullAt(i) ==
  \A f \in {"isError", "isErrorGroup", "createError", "groupErrors"} :
    errorsHelper.seen[i].t = "object" /\ f \in errorsHelper.seen[i].functions

\* C40: a call returns null as long as no call so far found the global
\* service with all four functions; from the first call that returns a
\* service on, every call returns that same service, whatever the global is
C40_CachedService ==
  \A i \in 1..Len(errorsHelper.results) :
    LET full == {j \in 1..i : FullAt(j)} IN
    IF full = {} THEN errorsHelper.results[i] = Null
    ELSE errorsHelper.results[i] =
           errorsHelper.seen[CHOOSE j \in full : \A k \in full : j <= k]

C40_Witness ==
  /\ Len(errorsHelper.results) = 3
  /\ errorsHelper.results[1] = Null
  /\ errorsHelper.results[2].t = "object"
  /\ errorsHelper.results[3] = errorsHelper.results[2]
  /\ errorsHelper.seen[3] # errorsHelper.results[2]
====
